---------------------------- MODULE Spec2Model ----------------------------
(***************************************************************************)
(* Model of the bounded uint64 anonymization mapper of libanon             *)
(* (src/src/anon-uint64.c) and of the command line drivers that use the    *)
(* mappers (src/src/anon.c).                                               *)
(*                                                                         *)
(* A mapper is a record holding the fields of struct _anon_uint64 plus the *)
(* control position of the call that is in progress.  uint64_t is scaled   *)
(* to Width bits; all unsigned arithmetic is taken modulo 2^Width.         *)
(*                                                                         *)
(* Modelling choices:                                                      *)
(*  - assert() is enabled (the source never defines NDEBUG): a failed      *)
(*    assertion aborts the process; the call does not return.              *)
(*  - malloc() succeeds.                                                   *)
(*  - RAND_bytes() yields any Width-bit value; a draw is one step of the   *)
(*    re-draw loops of anon_uint64_map and anon_uint64_set_state.          *)
(*  - "% a->range" with range = 0 is undefined behaviour: the outcome is   *)
(*    either a trap (SIGFPE) or an arbitrary Width-bit value.              *)
(*  - lh_free() releases the table and its internal nodes, not the data    *)
(*    items stored in it (OpenSSL lhash).                                  *)
(*  - the int counter of the finalization loop is not given a width: a     *)
(*    list never has 2^31 nodes in the scaled model.                       *)
(*  - the input of a driver is a regular file that is not modified while   *)
(*    the program runs; it is a sequence of items that the driver's read   *)
(*    (fscanf, or fgets and inet_pton) converts or fails to convert.       *)
(*  - the mappers other than the uint64 mapper are not modelled: a driver  *)
(*    of another kind only records the calls it makes.                     *)
(*  - several mappers may exist side by side; a driver presents the same   *)
(*    call to every one of them (one mapper in Spec, two in PairSpec).     *)
(***************************************************************************)
EXTENDS Integers, Sequences, FiniteSets, TLC

VARIABLES mappers, cli

vars == <<mappers, cli>>

(* ------------------------------ bounds -------------------------------- *)

\* number of bits of the scaled uint64_t
Width == 2

\* inputs presented by the caller are 0..MaxNum (clipped to Width bits)
MaxNum == 1

\* mappers are created with lower in 0..MaxLower and either
\* upper - lower <= MaxSpan or the full-width bounds 0 and 2^Width - 1
MaxLower == 1

MaxSpan == 2

\* PairSpec creates its two mappers with upper - lower <= PairMaxSpan
PairMaxSpan == 1

\* an input file of a driver has at most MaxFile items
MaxFile == 2

\* the numbers written on a command line are 0..MaxArg
MaxArg == 1

Modulus == 2 ^ Width

UMax == Modulus - 1

U64 == 0 .. UMax

\* a list of 2^64 nodes does not fit the address space: the inputs of one
\* run never cover the whole type
Nums == 0 .. (IF MaxNum < UMax THEN MaxNum ELSE UMax - 1)

\* the keys that may be passed to anon_uint64_set_key; a key is opaque
Keys == {"K"}

(* --------------------------- program constants ------------------------ *)

INIT == 0

NON_LEX == 1

LEX == 2

(* ------------------------------ helpers ------------------------------- *)

SetMin(S) == CHOOSE x \in S : \A y \in S : x <= y

Range(s) == {s[i] : i \in 1 .. Len(s)}

EmptyTable == [x \in {} |-> 0]

\* lh_insert: add the entry, replacing an entry with an equal key
lh_insert(table, num, hash) ==
    [x \in (DOMAIN table) \cup {num} |-> IF x = num THEN hash ELSE table[x]]

\* lh_retrieve: is there an entry for num
lh_retrieve(table, num) == num \in DOMAIN table

(* ------------------------------ list_insert --------------------------- *)

\* a plausible slip: the scan never advances, so a new node always goes to
\* the head of the list
list_insert_head(list, num) ==
    IF num \in Range(list)
    THEN [ret |-> 1, list |-> list]
    ELSE [ret |-> 0, list |-> <<num>> \o list]

\* The scan stops at the first node p with num == p->num (return 1) or
\* num > p->num (break); the new node is linked in front of p.  The list
\* is therefore kept in descending order.
list_insert(list, num) ==
    LET stops == {i \in 1 .. Len(list) : num >= list[i]}
        p == IF stops = {} THEN Len(list) + 1 ELSE SetMin(stops)
    IN IF p <= Len(list) /\ list[p] = num
       THEN [ret |-> 1, list |-> list]
       ELSE [ret |-> 0,
             list |-> SubSeq(list, 1, p - 1) \o <<num>> \o SubSeq(list, p, Len(list))]

(* ------------------------ generate_random_number ---------------------- *)

\* a plausible slip: the offset a->lower is not added
generate_random_number_nolower(a, r, trap) ==
    IF a.range = 0
    THEN [trap |-> trap, num |-> r]
    ELSE [trap |-> FALSE, num |-> r % a.range]

\* r is the value RAND_bytes wrote.  With range = 0 the modulo is undefined:
\* the draw traps (SIGFPE) or leaves an arbitrary value.
generate_random_number(a, r, trap) ==
    IF a.range = 0
    THEN [trap |-> trap, num |-> (r + a.lower) % Modulus]
    ELSE [trap |-> FALSE, num |-> ((r % a.range) + a.lower) % Modulus]

\* the outcomes of the modulo: it can trap only when range = 0
Traps(a) == IF a.range = 0 THEN BOOLEAN ELSE {FALSE}

(* ---------------------------- anon_uint64_new ------------------------- *)

anon_uint64_new(lower, upper) ==
    [lower      |-> lower,
     upper      |-> upper,
     range      |-> (upper - lower + 1) % Modulus,
     state      |-> INIT,
     list       |-> <<>>,
     hash_table |-> EmptyTable,
     \* live allocations: the mapper struct, the lhash table and the number
     \* of struct hash_node; the live list nodes are those of list, hashlist
     live       |-> [mapper |-> TRUE, table |-> TRUE, hash_nodes |-> 0],
     \* locals of anon_uint64_set_state
     hashlist   |-> <<>>,
     count      |-> 0,
     \* the call in progress or the last call
     pc         |-> "idle",
     op         |-> "new",
     num        |-> <<>>,
     found      |-> FALSE,
     anum       |-> <<>>,
     status     |-> "none",
     \* history: the key given to set_key, the numbers passed to set_used
     \* in state INIT, the (num, anum) pairs returned
     key        |-> <<>>,
     marked     |-> {},
     outputs    |-> {}]

(* ------------------------- anon_uint64_set_state ---------------------- *)

\* a plausible slip: the drawn list is walked from its other end
RECURSIVE assign_reverse(_, _, _, _)
assign_reverse(table, list, hashlist, i) ==
    IF i > Len(list)
    THEN table
    ELSE assign_reverse(lh_insert(table, list[i], hashlist[Len(list) + 1 - i]),
                        list, hashlist, i + 1)

\* lines 163-188: pair the used numbers with the drawn numbers, node by
\* node, then free both lists
RECURSIVE assign(_, _, _, _)
assign(table, list, hashlist, i) ==
    IF i > Len(list)
    THEN table
    ELSE assign(lh_insert(table, list[i], hashlist[i]), list, hashlist, i + 1)

set_state_finish(a) ==
    [a EXCEPT !.hash_table = assign(a.hash_table, a.list, a.hashlist, 1),
              !.live.hash_nodes = @ + Len(a.list),
              !.list = <<>>,
              !.hashlist = <<>>,
              !.count = 0,
              !.pc = "idle"]

\* lines 151-157: head of the loop over a->list for the node number count
set_state_node(a, count) ==
    IF count > Len(a.list)
    THEN set_state_finish(a)
    ELSE IF count > (a.upper - a.lower + 1) % Modulus
         THEN [a EXCEPT !.count = count, !.pc = "abort_range"]
         ELSE [a EXCEPT !.count = count, !.pc = "lex"]

\* lines 158-160: one iteration of the do-while loop
set_state_draw(a, r, trap) ==
    LET x == generate_random_number(a, r, trap)
    IN IF x.trap
       THEN [a EXCEPT !.pc = "sigfpe"]
       ELSE LET ins == list_insert(a.hashlist, x.num)
            IN IF ins.ret = 1
               THEN a
               ELSE set_state_node([a EXCEPT !.hashlist = ins.list], a.count + 1)

\* a plausible slip: the assertions on the previous state are missing
set_state_noassert(a, state) ==
    IF state = INIT
    THEN a
    ELSE IF state = NON_LEX
         THEN [a EXCEPT !.state = state]
         ELSE IF a.state = state
              THEN a
              ELSE set_state_node([a EXCEPT !.state = state, !.hashlist = <<>>], 1)

\* a plausible slip: the table is rebuilt on every change to LEX
set_state_rebuild(a, state) ==
    IF state = INIT
    THEN a
    ELSE IF state = NON_LEX
         THEN IF a.state = state
              THEN a
              ELSE IF a.state # INIT
                   THEN [a EXCEPT !.pc = "abort_mode"]
                   ELSE [a EXCEPT !.state = state]
         ELSE IF a.state = NON_LEX
              THEN [a EXCEPT !.pc = "abort_mode"]
              ELSE set_state_node([a EXCEPT !.state = state, !.hashlist = <<>>], 1)

\* the result has pc = "idle" when the function returned, "lex" when it is
\* inside the do-while loop, "abort_*" when an assertion failed
anon_uint64_set_state(a, state) ==
    IF state = INIT
    THEN a
    ELSE IF state = NON_LEX
         THEN IF a.state = state
              THEN a
              ELSE IF a.state # INIT
                   THEN [a EXCEPT !.pc = "abort_mode"]
                   ELSE [a EXCEPT !.state = state]
         ELSE IF a.state = state
              THEN a
              ELSE IF a.state # INIT
                   THEN [a EXCEPT !.pc = "abort_mode"]
                   ELSE set_state_node([a EXCEPT !.state = state,
                                                 !.hashlist = <<>>], 1)

(* --------------------------- the API functions ------------------------ *)

\* entry of a call: the argument is recorded, nothing has been returned;
\* found is "p != NULL" after lh_retrieve; anum is the caller's variable for
\* this call, not yet written
enter(a, op, num) ==
    [a EXCEPT !.op = op, !.num = num, !.found = FALSE, !.anum = <<>>,
              !.status = "none"]

\* return 0, with *anum written by the call when it has an output
return_anum(a, anum) ==
    [a EXCEPT !.pc = "idle", !.anum = <<anum>>, !.status = "ok",
              !.outputs = @ \cup {<<a.num[1], anum>>}]

anon_uint64_set_key(a, key) ==
    [enter(a, "set_key", <<>>) EXCEPT !.key = <<key>>, !.status = "ok"]

anon_uint64_set_used(a, num) ==
    LET s == anon_uint64_set_state(enter(a, "set_used", <<num>>), INIT)
        ins == list_insert(s.list, num)
    IN [s EXCEPT !.list = ins.list, !.status = "ok",
                 !.marked = IF a.state = INIT THEN @ \cup {num} ELSE @]

\* a plausible slip: the lookup in the hash table is skipped
anon_uint64_map_nolookup(a, num) ==
    LET s == anon_uint64_set_state(enter(a, "map", <<num>>), NON_LEX)
    IN IF s.pc # "idle" THEN s ELSE [s EXCEPT !.pc = "map"]

\* lines 316-324: up to the entry of the do-while loop
anon_uint64_map(a, num) ==
    LET s == anon_uint64_set_state(enter(a, "map", <<num>>), NON_LEX)
    IN IF s.pc # "idle"
       THEN s
       ELSE IF lh_retrieve(s.hash_table, num)
            THEN return_anum([s EXCEPT !.found = TRUE], s.hash_table[num])
            ELSE [s EXCEPT !.pc = "map"]

\* a plausible slip: the drawn number is taken without the uniqueness loop
map_draw_once(a, r, trap) ==
    LET x == generate_random_number(a, r, trap)
    IN IF x.trap
       THEN [a EXCEPT !.pc = "sigfpe"]
       ELSE return_anum([a EXCEPT !.list = list_insert(a.list, x.num).list,
                                  !.live.hash_nodes = @ + 1,
                                  !.hash_table = lh_insert(a.hash_table, a.num[1], x.num)],
                        x.num)

\* lines 326-338: one iteration of the do-while loop; *anum is written by
\* every iteration
map_draw(a, r, trap) ==
    LET x == generate_random_number(a, r, trap)
    IN IF x.trap
       THEN [a EXCEPT !.pc = "sigfpe"]
       ELSE LET ins == list_insert(a.list, x.num)
            IN IF ins.ret = 1
               THEN [a EXCEPT !.anum = <<x.num>>]
               ELSE return_anum([a EXCEPT !.list = ins.list,
                                          !.live.hash_nodes = @ + 1,
                                          !.hash_table = lh_insert(a.hash_table, a.num[1], x.num)],
                                x.num)

\* a plausible slip: a number that is not in the table is coerced to lower
map_lex_lookup_coerce(a) ==
    IF a.pc # "idle"
    THEN a
    ELSE IF lh_retrieve(a.hash_table, a.num[1])
         THEN return_anum([a EXCEPT !.found = TRUE], a.hash_table[a.num[1]])
         ELSE return_anum(a, a.lower)

\* lines 351-357: the lookup that follows anon_uint64_set_state(a, LEX)
map_lex_lookup(a) ==
    IF a.pc # "idle"
    THEN a
    ELSE IF lh_retrieve(a.hash_table, a.num[1])
         THEN return_anum([a EXCEPT !.found = TRUE], a.hash_table[a.num[1]])
         ELSE [a EXCEPT !.pc = "abort_lookup"]

anon_uint64_map_lex(a, num) ==
    map_lex_lookup(anon_uint64_set_state(enter(a, "map_lex", <<num>>), LEX))

\* lh_free releases the table, the loop frees the list nodes, free(a) the
\* mapper; the struct hash_node entries are not touched
anon_uint64_delete(a) ==
    [enter(a, "delete", <<>>) EXCEPT
        !.pc = "deleted",
        !.hash_table = EmptyTable,
        !.list = <<>>,
        !.live = [mapper |-> FALSE, table |-> FALSE, hash_nodes |-> @.hash_nodes],
        !.status = "ok"]

(* ------------------------------- actions ------------------------------ *)

Ids == DOMAIN mappers

AllIdle == \A a \in Ids : mappers[a].pc = "idle"

SetKey(key) ==
    /\ AllIdle
    /\ mappers' = [a \in Ids |-> anon_uint64_set_key(mappers[a], key)]
    /\ UNCHANGED cli

SetUsed(num) ==
    /\ AllIdle
    /\ mappers' = [a \in Ids |-> anon_uint64_set_used(mappers[a], num)]
    /\ UNCHANGED cli

Map(num) ==
    /\ AllIdle
    /\ mappers' = [a \in Ids |-> anon_uint64_map(mappers[a], num)]
    /\ UNCHANGED cli

MapLex(num) ==
    /\ AllIdle
    /\ mappers' = [a \in Ids |-> anon_uint64_map_lex(mappers[a], num)]
    /\ UNCHANGED cli

Delete ==
    /\ AllIdle
    /\ mappers' = [a \in Ids |-> anon_uint64_delete(mappers[a])]
    /\ UNCHANGED cli

MapDraw(a, r, trap) ==
    /\ mappers[a].pc = "map"
    /\ mappers' = [mappers EXCEPT ![a] = map_draw(@, r, trap)]
    /\ UNCHANGED cli

LexDraw(a, r, trap) ==
    /\ mappers[a].pc = "lex"
    /\ mappers' = [mappers EXCEPT ![a] = map_lex_lookup(set_state_draw(@, r, trap))]
    /\ UNCHANGED cli

\* the bounds anon_uint64_new is called with: lower <= upper is asserted
Bounds ==
    {b \in U64 \X U64 :
        /\ b[1] <= b[2]
        /\ \/ b[1] <= MaxLower /\ b[2] - b[1] <= MaxSpan
           \/ b[1] = 0 /\ b[2] = UMax}

\* no command line driver is running
CliOff == [pc |-> "off"]

Init ==
    \E b \in Bounds :
        /\ mappers = [a \in {1} |-> anon_uint64_new(b[1], b[2])]
        /\ cli = CliOff

PairInit ==
    \E b \in Bounds :
        /\ b[2] - b[1] <= PairMaxSpan
        /\ mappers = [a \in {1, 2} |-> anon_uint64_new(b[1], b[2])]
        /\ cli = CliOff

Next ==
    \/ \E key \in Keys : SetKey(key)
    \/ \E num \in Nums : SetUsed(num)
    \/ \E num \in Nums : Map(num)
    \/ \E num \in Nums : MapLex(num)
    \/ Delete
    \/ \E a \in Ids : \E r \in U64 : \E trap \in Traps(mappers[a]) : MapDraw(a, r, trap)
    \/ \E a \in Ids : \E r \in U64 : \E trap \in Traps(mappers[a]) : LexDraw(a, r, trap)

Spec == Init /\ [][Next]_vars

PairSpec == PairInit /\ [][Next]_vars

\* fair random draws: every value RAND_bytes can yield is drawn again and
\* again while the re-draw loop of the lex finalization is running (the
\* loop of map is left free to stall)
FairSpec ==
    /\ Spec
    /\ \A r \in U64 : WF_vars(LexDraw(1, r, FALSE))

(* ------------------------- the command line drivers ------------------- *)

Kinds == {"ipv4", "ipv6", "mac", "int64", "uint64", "octs"}

\* the subcommands that take "lower upper" in front of the file
Bounded == {"int64", "uint64"}

\* an item of an input file: a line or token the driver's read converts
\* (ok) or fails to convert
Items == {[ok |-> TRUE, val |-> n] : n \in Nums} \cup {[ok |-> FALSE, val |-> 0]}

Files == UNION {[1 .. n -> Items] : n \in 0 .. MaxFile}

ArgNums == 0 .. (IF MaxArg < UMax THEN MaxArg ELSE UMax)

\* the words of a command line: numbers in decimal and the file name "f"
ArgTexts == {ToString(n) : n \in ArgNums} \cup {"f"}

\* the file "f" exists; a file whose name is a number may exist as well
FileSystems ==
    {[name \in {"f"} \cup extra |-> file] :
        extra \in {{}} \cup {{ToString(n)} : n \in ArgNums}, file \in Files}

\* the arguments that remain after the options
Argvs(kind) ==
    IF kind \in Bounded
    THEN {<<l, u, "f">> : l \in ArgTexts, u \in ArgTexts}
            \cup {<<l, "f">> : l \in ArgTexts}
    ELSE {<<"f">>, <<"g">>, <<"f", "f">>}

\* sscanf(text, "%" SCNu64, &x) == 1: <<x>> when a number was converted
sscanf(text) ==
    LET ns == {n \in U64 : ToString(n) = text}
    IN IF ns = {} THEN <<>> ELSE <<CHOOSE n \in ns : TRUE>>

\* xfopen and fopen of the cmd_ functions: exit when the file cannot be
\* opened
xfopen(c, name) ==
    IF name \in DOMAIN c.fs
    THEN [c EXCEPT !.opened = <<name>>, !.pos = 1, !.pc = "open"]
    ELSE [c EXCEPT !.opened = <<name>>, !.pc = "exit_failure"]

\* the index (from 1) of the remaining argument that is opened as the input:
\* cmd_int64 opens argv[2], cmd_uint64 opens argv[1]
FileArg(kind) == IF kind = "int64" THEN 3 ELSE 2

\* the cmd_ functions from the end of the option parsing to the opening of
\* the input
cmd_args(c) ==
    IF c.kind \in Bounded
    THEN IF Len(c.argv) < 3
         THEN [c EXCEPT !.pc = "exit_failure"]
         ELSE IF sscanf(c.argv[1]) = <<>>
              THEN [c EXCEPT !.pc = "exit_failure"]
              ELSE IF sscanf(c.argv[2]) = <<>>
                   THEN [c EXCEPT !.lower = sscanf(c.argv[1]),
                                  !.pc = "exit_failure"]
                   ELSE xfopen([c EXCEPT !.lower = sscanf(c.argv[1]),
                                         !.upper = sscanf(c.argv[2])],
                               c.argv[FileArg(c.kind)])
    ELSE IF Len(c.argv) # 1
         THEN [c EXCEPT !.pc = "exit_failure"]
         ELSE xfopen(c, c.argv[1])

\* the loop condition of a driver at the file position: <<item>> when it
\* holds, <<>> at the end of the file or when the conversion fails;
\* octet_string_lex takes every line
read(c) ==
    LET file == c.fs[c.opened[1]]
    IN IF c.pos > Len(file)
       THEN <<>>
       ELSE IF file[c.pos].ok \/ c.kind = "octs"
            THEN <<file[c.pos]>>
            ELSE <<>>

\* a plausible slip: the file is not rewound between the passes
rewind_missing(c) ==
    c

\* fseek(f, 0, SEEK_SET) or rewind(f)
rewind(c) ==
    [c EXCEPT !.pos = 1]

\* cmd_*: parse the arguments, open the input, create the mapper; the
\* assertion lower <= upper of anon_uint64_new aborts
Cmd ==
    /\ cli.pc = "cmd"
    /\ LET c == cmd_args(cli)
           new == c.pc = "open" /\ c.kind = "uint64"
       IN IF c.pc # "open"
          THEN cli' = c /\ UNCHANGED mappers
          ELSE IF new /\ c.lower[1] > c.upper[1]
               THEN cli' = [c EXCEPT !.pc = "abort"] /\ UNCHANGED mappers
               ELSE /\ cli' = [c EXCEPT !.pc = IF c.lflag THEN "pass1" ELSE "nolex"]
                    /\ mappers' = IF new
                                  THEN [a \in {1} |-> anon_uint64_new(c.lower[1], c.upper[1])]
                                  ELSE mappers

\* the end of a cmd_ function: delete the mapper, close the input
Finish ==
    /\ cli' = [cli EXCEPT !.pc = "done"]
    /\ mappers' = [a \in Ids |-> anon_uint64_delete(mappers[a])]

\* one iteration of the first loop of a _lex driver, or its end and the
\* rewind
LexPass1 ==
    /\ cli.pc = "pass1"
    /\ AllIdle
    /\ LET it == read(cli)
       IN IF it # <<>>
          THEN /\ cli' = [cli EXCEPT !.pos = @ + 1, !.used_seq = Append(@, it[1])]
               /\ mappers' = [a \in Ids |-> anon_uint64_set_used(mappers[a], it[1].val)]
          ELSE /\ cli' = rewind([cli EXCEPT !.pc = "pass2"])
               /\ UNCHANGED mappers

\* one iteration of the second loop of a _lex driver, or its end
LexPass2 ==
    /\ cli.pc = "pass2"
    /\ AllIdle
    /\ LET it == read(cli)
       IN IF it # <<>>
          THEN /\ cli' = [cli EXCEPT !.pos = @ + 1, !.lex_seq = Append(@, it[1])]
               /\ mappers' = [a \in Ids |-> anon_uint64_map_lex(mappers[a], it[1].val)]
          ELSE Finish

\* one iteration of the loop of a _nolex or _pref driver, or its end
Nolex ==
    /\ cli.pc = "nolex"
    /\ AllIdle
    /\ LET it == read(cli)
       IN IF it # <<>>
          THEN /\ cli' = [cli EXCEPT !.pos = @ + 1]
               /\ mappers' = [a \in Ids |-> anon_uint64_map(mappers[a], it[1].val)]
          ELSE Finish

DriverInit ==
    /\ mappers = [a \in {} |-> 0]
    /\ \E kind \in Kinds : \E lflag \in BOOLEAN :
       \E argv \in Argvs(kind) : \E fs \in FileSystems :
           cli = [pc       |-> "cmd",
                  kind     |-> kind,
                  lflag    |-> lflag,
                  argv     |-> argv,
                  fs       |-> fs,
                  lower    |-> <<>>,
                  upper    |-> <<>>,
                  opened   |-> <<>>,
                  pos      |-> 0,
                  \* history: the items passed to set_used and to map_lex
                  used_seq |-> <<>>,
                  lex_seq  |-> <<>>]

DriverNext ==
    \/ Cmd
    \/ LexPass1
    \/ LexPass2
    \/ Nolex
    \/ \E a \in Ids : \E r \in U64 : \E trap \in Traps(mappers[a]) : MapDraw(a, r, trap)
    \/ \E a \in Ids : \E r \in U64 : \E trap \in Traps(mappers[a]) : LexDraw(a, r, trap)

DriverSpec == DriverInit /\ [][DriverNext]_vars

(* ------------------------------ properties ---------------------------- *)

\* the mathematical size of [lower, upper]
TrueRange(m) == m.upper - m.lower + 1

\* the images recorded in the hash table
Images(m) == {m.hash_table[x] : x \in DOMAIN m.hash_table}

\* C1: in lex mode the outputs preserve the order of the used inputs: for
\* used a < b, map_lex(a) < map_lex(b); this holds of the table built by
\* the finalization and of every pair of values map_lex has returned.
C1_LexOrderPreserved ==
    \A a \in Ids :
        LET m == mappers[a]
        IN m.state = LEX =>
              /\ \A p \in m.outputs : \A q \in m.outputs :
                     p[1] < q[1] => p[2] < q[2]
              /\ m.pc = "idle" =>
                     \A x \in DOMAIN m.hash_table : \A y \in DOMAIN m.hash_table :
                         x < y => m.hash_table[x] < m.hash_table[y]

C1_Witness ==
    \E a \in Ids :
        /\ mappers[a].state = LEX
        /\ \E p \in mappers[a].outputs : \E q \in mappers[a].outputs : p[1] < q[1]

\* C2: per mapper, two distinct inputs that have been mapped (by map in
\* non-lex mode, by map_lex in lex mode) have distinct outputs.
C2_Injective ==
    \A a \in Ids :
        \A p \in mappers[a].outputs : \A q \in mappers[a].outputs :
            p[1] # q[1] => p[2] # q[2]

C2_Witness ==
    \E a \in Ids :
        /\ mappers[a].state = NON_LEX
        /\ Cardinality({p[1] : p \in mappers[a].outputs}) >= 2

C4_MapIdempotent ==
    [][\A num \in Nums : Map(num) =>
          \A a \in Ids :
              LET m == mappers[a]
                  n == mappers'[a]
              IN \A p \in m.outputs :
                     (m.state = NON_LEX /\ p[1] = num) =>
                         /\ n.status = "ok"
                         /\ n.anum = <<p[2]>>
                         /\ n.list = m.list
                         /\ n.hash_table = m.hash_table
                         /\ n.outputs = m.outputs]_vars

C4_Witness ==
    \E a \in Ids :
        LET m == mappers[a]
        IN /\ m.op = "map"
           /\ m.status = "ok"
           /\ m.found
           /\ Cardinality(m.outputs) >= 2

\* C5: the state never leaves NON_LEX or LEX and never returns to INIT; a
\* map_lex call in NON_LEX and a map call in LEX fail (the call does not
\* return) and yield no output.
C5_ModeLock ==
    [][\A a \in Ids :
          LET m == mappers[a]
              n == mappers'[a]
              failed == /\ n.pc = "abort_mode"
                        /\ n.status = "none"
                        /\ n.anum = <<>>
                        /\ n.outputs = m.outputs
                        /\ n.hash_table = m.hash_table
          IN /\ m.state = NON_LEX => n.state = NON_LEX
             /\ m.state = LEX => n.state = LEX
             /\ \A num \in Nums : (MapLex(num) /\ m.state = NON_LEX) => failed
             /\ \A num \in Nums : (Map(num) /\ m.state = LEX) => failed]_vars

C5_Witness ==
    \E a \in Ids :
        LET m == mappers[a]
        IN /\ m.pc = "abort_mode"
           /\ m.op = "map_lex"
           /\ m.state = NON_LEX
           /\ m.outputs # {}

\* C6: after the first map or map_lex call, set_used fails and leaves the
\* mapper's list unchanged.
C6_SetUsedOnlyInInit ==
    [][\A num \in Nums : SetUsed(num) =>
          \A a \in Ids :
              mappers[a].state # INIT =>
                  /\ mappers'[a].status # "ok"
                  /\ mappers'[a].list = mappers[a].list]_vars

\* C7: two mappers with the same bounds, the same key and the same sequence
\* of calls return identical outputs for every call.
C7_Determinism ==
    \A a \in Ids : \A b \in Ids :
        LET m == mappers[a]
            n == mappers[b]
        IN (m.pc = "idle" /\ n.pc = "idle" /\ m.key # <<>> /\ m.key = n.key) =>
              /\ m.status = n.status
              /\ m.status = "ok" => m.anum = n.anum
              /\ m.outputs = n.outputs

\* C8: a map call on a fresh input with all of [lower, upper] already
\* issued terminates and fails: from the re-draw loop there is a step that
\* leaves the loop without returning success.
C8_ExhaustedMapFails ==
    \A a \in Ids :
        LET m == mappers[a]
        IN (m.pc = "map" /\ Cardinality(Images(m)) = TrueRange(m)) =>
              \E r \in U64 : \E trap \in Traps(m) :
                  LET n == map_draw(m, r, trap)
                  IN n.pc # "map" /\ n.status # "ok"

\* C9: the finalization of the first map_lex call fails exactly if the
\* number of distinct used values exceeds upper - lower + 1; otherwise it
\* completes: while it draws, some draw makes progress.
C9_LexSizeCheck ==
    \A a \in Ids :
        LET m == mappers[a]
        IN /\ m.pc = "abort_range" => Len(m.list) > TrueRange(m)
           /\ (m.state = LEX /\ m.pc \in {"idle", "abort_lookup"}) =>
                  Cardinality(DOMAIN m.hash_table) <= TrueRange(m)
           /\ m.pc = "lex" =>
                  \E r \in U64 : set_state_draw(m, r, FALSE) # m

\* C10: the input-to-output table is built once, by the first map_lex call;
\* no later step in the mapper's lifetime changes it, and every map_lex(v)
\* that returns yields the table's value for v, whatever the order and
\* number of map_lex calls.
C10_LexTableFixed ==
    [][\A a \in Ids :
          LET m == mappers[a]
              n == mappers'[a]
          IN /\ (m.state = LEX /\ (m.pc = "idle" \/ m.outputs # {})
                   /\ n.pc # "deleted") =>
                    /\ n.hash_table = m.hash_table
                    /\ (n.op = "map_lex" /\ n.status = "ok") =>
                           n.anum = <<m.hash_table[n.num[1]]>>
             /\ (n.state = LEX /\ n.pc # "deleted") =>
                    \A p \in n.outputs : n.hash_table[p[1]] = p[2]]_vars

C10_Witness ==
    \E a \in Ids :
        LET m == mappers[a]
        IN /\ m.state = LEX
           /\ m.op = "map_lex"
           /\ m.status = "ok"
           /\ Cardinality(m.outputs) >= 2
           /\ \E p \in m.outputs : p[1] > m.num[1]

\* C11: after anon_uint64_delete every allocation made for the mapper is
\* released: the struct, the table, every list node and every struct
\* hash_node inserted by map or by the lex finalization.
C11_DeleteReleasesAll ==
    \A a \in Ids :
        LET m == mappers[a]
        IN m.pc = "deleted" =>
              /\ ~m.live.mapper
              /\ ~m.live.table
              /\ Len(m.list) + Len(m.hashlist) = 0
              /\ m.live.hash_nodes = 0

\* C12: the range stored by anon_uint64_new is the mathematical value
\* upper - lower + 1, at least 1, for every pair lower <= upper.
C12_RangeComputed ==
    \A a \in Ids :
        /\ mappers[a].range = TrueRange(mappers[a])
        /\ mappers[a].range >= 1

\* C13: map_lex(v) for a v that was not passed to set_used before the first
\* map_lex call fails: the call never returns status 0 and writes no
\* output; no output is ever recorded for an unmarked number, and the
\* failing call leaves the table and the outputs of the marked inputs as
\* they were.
C13_UnmarkedMapLexFails ==
    [][\A a \in Ids :
          LET m == mappers[a]
              n == mappers'[a]
          IN /\ (n.op = "map_lex" /\ n.num[1] \notin n.marked) =>
                    /\ n.status # "ok"
                    /\ n.anum = <<>>
                    /\ n.pc # "idle"
                    /\ n.outputs = m.outputs
             /\ n.state = LEX => \A p \in n.outputs : p[1] \in n.marked
             /\ (m.state = LEX /\ m.pc = "idle" /\ n.pc = "abort_lookup") =>
                    n.hash_table = m.hash_table]_vars

C13_Witness ==
    \E a \in Ids :
        LET m == mappers[a]
        IN /\ m.pc = "abort_lookup"
           /\ m.marked # {}
           /\ m.outputs # {}
           /\ m.num[1] \notin m.marked

\* C14: on a cache miss map rejects a drawn candidate only if it equals an
\* image issued before by map; so, with every set_used call made before
\* the first map call, a fresh input gets an image whenever fewer than
\* upper - lower + 1 images have been issued.
C14_CollisionRule ==
    \A a \in Ids :
        LET m == mappers[a]
        IN (m.pc = "map" /\ Range(m.list) \subseteq (m.marked \cup Images(m))) =>
              /\ \A r \in U64 : \A trap \in Traps(m) :
                     LET x == generate_random_number(m, r, trap)
                     IN (~x.trap /\ x.num \notin Images(m)) =>
                            map_draw(m, r, trap).status = "ok"
              /\ Cardinality(Images(m)) < TrueRange(m) =>
                     \E r \in U64 : map_draw(m, r, FALSE).status = "ok"

\* the order-preserving bijection of the table's domain onto
\* lower, lower + 1, ...
Forced(m) ==
    \A x \in DOMAIN m.hash_table :
        m.hash_table[x] = m.lower + Cardinality({y \in DOMAIN m.hash_table : y < x})

\* the finalization of the first map_lex call has run to its end
Finalized(m) == m.state = LEX /\ m.pc \in {"idle", "abort_lookup"}

\* C17: when the used set has exactly upper - lower + 1 elements, the
\* finalization completes under fair draws and maps the k-th smallest used
\* input to lower + k, whatever was drawn.
C17_FullRangeForced ==
    /\ [](\A a \in Ids :
            (Finalized(mappers[a])
             /\ Cardinality(DOMAIN mappers[a].hash_table) = TrueRange(mappers[a]))
                => Forced(mappers[a]))
    /\ \A a \in {1} :
          (mappers[a].pc = "lex" /\ Len(mappers[a].list) = TrueRange(mappers[a]))
             ~> (/\ Finalized(mappers[a])
                 /\ Cardinality(DOMAIN mappers[a].hash_table) = TrueRange(mappers[a])
                 /\ Forced(mappers[a]))

C17_Witness ==
    \E a \in Ids :
        LET m == mappers[a]
        IN /\ Finalized(m)
           /\ m.status = "ok"
           /\ Cardinality(DOMAIN m.hash_table) = TrueRange(m)
           /\ TrueRange(m) >= 2
           /\ m.lower > 0

IsPrefix(s, t) == Len(s) <= Len(t) /\ SubSeq(t, 1, Len(s)) = s

\* C15: in a _lex driver every set_used call precedes the first map_lex
\* call, the values passed to map_lex are, in order, the values passed to
\* set_used (all of them once the second pass has ended), and map_lex is
\* never called on a value that was not marked.
C15_TwoPass ==
    /\ [](/\ IsPrefix(cli.lex_seq, cli.used_seq)
          /\ cli.pc = "done" /\ cli.lflag => cli.lex_seq = cli.used_seq
          /\ \A a \in Ids : mappers[a].pc # "abort_lookup")
    /\ [][cli.lex_seq # <<>> => cli'.used_seq = cli.used_seq]_vars

C15_Witness ==
    /\ cli.pc = "done"
    /\ cli.kind = "uint64"
    /\ cli.lflag
    /\ Len(cli.lex_seq) = 2
    /\ cli.lex_seq[1] # cli.lex_seq[2]

\* C16: for int64 and uint64, with the remaining arguments (lower, upper,
\* file), the bounds are parsed from the first and the second argument and
\* the input is the file named by the third.
C16_PositionalArgs ==
    (/\ cli.pc # "cmd"
     /\ cli.kind \in Bounded
     /\ Len(cli.argv) = 3
     /\ sscanf(cli.argv[1]) # <<>>
     /\ sscanf(cli.argv[2]) # <<>>) =>
        /\ cli.lower = sscanf(cli.argv[1])
        /\ cli.upper = sscanf(cli.argv[2])
        /\ cli.opened = <<cli.argv[3]>>

=============================================================================
